---------------------------- MODULE Spec2Model ----------------------------
(***************************************************************************)
(* City simulator (prototype/city-simulator): the partition calculation    *)
(* of city_simulator.py, the construction and start of the gateways, and   *)
(* the per-gateway loop of edge_manager.py with its publish / buffer /     *)
(* retry protocol and the supervisor's shutdown.                           *)
(*                                                                         *)
(* A gateway (EdgeManager) is identified by the edge index it was built    *)
(* for.  A payload is identified by the iteration that generated it.       *)
(***************************************************************************)
EXTENDS Integers, Sequences, FiniteSets, TLC

(***************************************************************************)
(* Bounds of the model.                                                    *)
(***************************************************************************)
\* total_edges is drawn from 0..MaxEdges
MaxEdges == 5
\* TOTAL_INSTANCES is drawn from -MaxInstances..MaxInstances,
\* INSTANCE_ID from -1..MaxInstances
MaxInstances == 3
\* deque(maxlen=1000) of edge_manager.py:93, scaled down
MaxLen == 4
\* the drain cadence "iteration % 10" of edge_manager.py:291, scaled down
RetryEvery == 2
\* iterations a gateway loop is followed for when one gateway runs alone
MaxIter == 9
\* iterations a gateway loop is followed for when several gateways run
MaxIterShared == 2

None == "None"
\* the value of payload before the first iteration generated one (the
\* payloads are numbered from 1)
NoPayload == 0

VARIABLES
    \* ---- configuration read at import / by load_city_config
    total_edges,        \* graph_config['total_edges']
    INSTANCE_ID,        \* int(os.getenv('INSTANCE_ID'))
    TOTAL_INSTANCES,    \* int(os.getenv('TOTAL_INSTANCES'))
    districts,          \* city_config['districts']
    sensors_per_gateway,\* total number of sensors configured per gateway
    \* ---- CitySimulator
    main_pc,            \* position of the main thread
    edge_range,         \* <<edge_start, edge_end>>, None before it is computed
    edge_managers,      \* list of gateways (edge indices) in creation order
    edge_threads,       \* list of started threads (edge indices)
    stop_event,         \* threading.Event shared by all gateways
    producer_closed,    \* kafka_producer.close() has been called
    joined,             \* number of threads stop() has joined so far
    \* ---- EdgeManager, one entry per gateway
    pc,                 \* position of the gateway thread
    iteration,          \* local variable iteration of run()
    payload,            \* local variable payload of run()
    local_buffer,       \* self.local_buffer
    messages_to_retry,  \* local variable of retry_buffered_messages()
    retry_idx,          \* position of the for loop in messages_to_retry
    sampling_interval,  \* self.sampling_interval, in tenths of a second
    \* ---- history (not program state)
    published,          \* payloads whose publish returned success, in order
    drain_start,        \* local_buffer as it was when the current drain began
    drain_attempts,     \* the send_to_kafka calls of the current drain, each
                        \* with the message handed over and the value returned
    failed,             \* payloads whose publish by run() failed, in order
    evicted,            \* payloads the full deque discarded
    faulted,            \* the except branch of run() has been taken
    iteration_at_stop,  \* iteration of every gateway when stop() set the event
    ranges,             \* ranges computed so far by the instances of the fleet
    horizon             \* number of iterations followed per gateway

cfgvars == <<total_edges, TOTAL_INSTANCES, districts, sensors_per_gateway, horizon>>
mainvars == <<main_pc, edge_range, edge_managers, edge_threads, stop_event,
              producer_closed, joined, iteration_at_stop>>
gwvars == <<pc, iteration, payload, local_buffer, messages_to_retry, retry_idx,
            sampling_interval, published, drain_start, drain_attempts, failed,
            evicted, faulted>>
vars == <<cfgvars, INSTANCE_ID, mainvars, gwvars, ranges>>

(***************************************************************************)
(* Python integer arithmetic: // and % round towards minus infinity and    *)
(* the remainder takes the sign of the divisor.  Neither is defined for a  *)
(* zero divisor (ZeroDivisionError).                                       *)
(***************************************************************************)
FloorDiv(a, b) == IF b > 0 THEN a \div b ELSE (0 - a) \div (0 - b)

PyMod(a, b) == a - b * FloorDiv(a, b)

\* range(a, b) as a sequence
PyRange(a, b) == [i \in 1..(IF b > a THEN b - a ELSE 0) |-> a + i - 1]

(***************************************************************************)
(* calculate_instance_edge_range                                           *)
(***************************************************************************)
\* a mutant: the remainder is not added to the start of the later instances
calculate_instance_edge_range_NoRemainder(te, instance_id, total_instances) ==
    LET edges_per_instance == FloorDiv(te, total_instances)
        remainder == PyMod(te, total_instances)
    IN  IF instance_id < remainder
        THEN LET start == instance_id * (edges_per_instance + 1)
             IN  <<start, start + edges_per_instance>>
        ELSE LET start == instance_id * edges_per_instance
             IN  <<start, start + edges_per_instance - 1>>

\* a mutant: the first instances do not receive the extra item
calculate_instance_edge_range_NoExtra(te, instance_id, total_instances) ==
    LET edges_per_instance == FloorDiv(te, total_instances)
        remainder == PyMod(te, total_instances)
    IN  IF instance_id < remainder
        THEN LET start == instance_id * (edges_per_instance + 1)
             IN  <<start, start + edges_per_instance - 1>>
        ELSE LET start == instance_id * edges_per_instance + remainder
             IN  <<start, start + edges_per_instance - 1>>

\* a mutant: an instance past the items is handed the last index
calculate_instance_edge_range_NeverEmpty(te, instance_id, total_instances) ==
    LET edges_per_instance == FloorDiv(te, total_instances)
        remainder == PyMod(te, total_instances)
    IN  IF instance_id < remainder
        THEN LET start == instance_id * (edges_per_instance + 1)
             IN  <<start, start + edges_per_instance>>
        ELSE LET start == instance_id * edges_per_instance + remainder
             IN  IF edges_per_instance = 0
                 THEN <<start - 1, start - 1>>
                 ELSE <<start, start + edges_per_instance - 1>>

calculate_instance_edge_range(te, instance_id, total_instances) ==
    LET edges_per_instance == FloorDiv(te, total_instances)
        remainder == PyMod(te, total_instances)
    IN  IF instance_id < remainder
        THEN LET start == instance_id * (edges_per_instance + 1)
             IN  <<start, start + edges_per_instance>>
        ELSE LET start == instance_id * edges_per_instance + remainder
             IN  <<start, start + edges_per_instance - 1>>

(***************************************************************************)
(* find_district_for_edge: the first district whose edge_range holds the   *)
(* index, else the first district, else None (NoDistrict).  A district is  *)
(* a record [district_id, start, end].                                     *)
(***************************************************************************)
NoDistrict == [district_id |-> None]

(***************************************************************************)
(* generate_edge_id and generate_gateway_id: an id is the sequence of its  *)
(* characters.                                                             *)
(***************************************************************************)
Digit == <<"0", "1", "2", "3", "4", "5", "6", "7", "8", "9">>

\* the decimal digits of n >= 0
RECURSIVE Decimal(_)
Decimal(n) ==
    IF n < 10 THEN <<Digit[n + 1]>> ELSE Decimal(n \div 10) \o <<Digit[(n % 10) + 1]>>

\* zeros in front of the digits ds up to the width w
RECURSIVE ZeroPad(_, _)
ZeroPad(ds, w) == IF Len(ds) >= w THEN ds ELSE ZeroPad(<<"0">> \o ds, w)

\* the format specification 05d: the sign counts for the width
Format05d(index) ==
    IF index < 0
    THEN <<"-">> \o ZeroPad(Decimal(0 - index), 4)
    ELSE ZeroPad(Decimal(index), 5)

\* f"E-{index:05d}"
generate_edge_id(index) == <<"E", "-">> \o Format05d(index)

\* f"GW-{edge_id}"
generate_gateway_id(edge_id) == <<"G", "W", "-">> \o edge_id

find_district_for_edge(ds, edge_index) ==
    LET hits == {i \in 1..Len(ds) : ds[i].start <= edge_index /\ edge_index <= ds[i].end}
    IN  IF hits # {}
        THEN ds[CHOOSE i \in hits : \A j \in hits : i <= j]
        ELSE IF Len(ds) > 0 THEN ds[1] ELSE NoDistrict

(***************************************************************************)
(* The loop of _initialize_edges: the edge indices for which an            *)
(* EdgeManager is created, in creation order.                              *)
(***************************************************************************)
RECURSIVE CreatedManagers(_, _)
CreatedManagers(ds, indices) ==
    IF indices = <<>>
    THEN <<>>
    ELSE IF find_district_for_edge(ds, Head(indices)) = NoDistrict
         THEN CreatedManagers(ds, Tail(indices))
         ELSE <<Head(indices)>> \o CreatedManagers(ds, Tail(indices))

SeqRange(s) == {s[i] : i \in 1..Len(s)}

\* random.uniform(2.5, 4.5) of EdgeManager.__init__, in tenths of a second:
\* the two ends of the interval
SamplingIntervals == {25, 45}

\* EdgeManager.__init__ for every gateway of the list ms
NewGateways(ms) ==
    /\ pc = [g \in SeqRange(ms) |-> "created"]
    /\ iteration = [g \in SeqRange(ms) |-> 0]
    /\ payload = [g \in SeqRange(ms) |-> NoPayload]
    /\ local_buffer = [g \in SeqRange(ms) |-> <<>>]
    /\ messages_to_retry = [g \in SeqRange(ms) |-> <<>>]
    /\ retry_idx = [g \in SeqRange(ms) |-> 0]
    /\ published = [g \in SeqRange(ms) |-> <<>>]
    /\ drain_start = [g \in SeqRange(ms) |-> <<>>]
    /\ drain_attempts = [g \in SeqRange(ms) |-> <<>>]
    /\ failed = [g \in SeqRange(ms) |-> <<>>]
    /\ evicted = [g \in SeqRange(ms) |-> {}]
    /\ faulted = [g \in SeqRange(ms) |-> FALSE]
    /\ sampling_interval \in [SeqRange(ms) -> SamplingIntervals]

(***************************************************************************)
(* Start-up of one instance: CitySimulator.__init__ and start_edges.       *)
(***************************************************************************)
InstanceIds == (0 - 1)..MaxInstances

DistrictConfigs ==
    { <<>>,
      <<[district_id |-> "D1", start |-> 0, end |-> 1]>>,
      <<[district_id |-> "D1", start |-> 0, end |-> 1],
        [district_id |-> "D2", start |-> 2, end |-> MaxEdges]>> }

\* the process before CitySimulator() is called
Fresh ==
    /\ main_pc = "init"
    /\ edge_range = None
    /\ edge_managers = <<>>
    /\ edge_threads = <<>>
    /\ stop_event = FALSE
    /\ iteration_at_stop = <<>>
    /\ producer_closed = FALSE
    /\ joined = 0
    /\ NewGateways(<<>>)

InitStartup ==
    /\ total_edges \in 0..MaxEdges
    /\ TOTAL_INSTANCES \in (0 - MaxInstances)..MaxInstances
    /\ INSTANCE_ID \in InstanceIds
    /\ districts \in DistrictConfigs
    /\ sensors_per_gateway = 1
    /\ horizon = 0
    /\ ranges = <<>>
    /\ Fresh

\* city_simulator.py:222-226; the division by zero leaves __init__ and
\* is caught by the handler of __main__, which exits.
CalculateRange ==
    /\ main_pc = "init"
    /\ IF TOTAL_INSTANCES = 0
       THEN /\ main_pc' = "fatal"
            /\ UNCHANGED <<edge_range, ranges>>
       ELSE LET r == calculate_instance_edge_range(total_edges, INSTANCE_ID, TOTAL_INSTANCES)
            IN  /\ main_pc' = "ranged"
                /\ edge_range' = r
                /\ ranges' = (INSTANCE_ID :> r) @@ ranges
    /\ UNCHANGED <<cfgvars, INSTANCE_ID, edge_managers, edge_threads, stop_event, iteration_at_stop,
                   producer_closed, joined, gwvars>>

\* city_simulator.py:266-317
InitializeEdges ==
    /\ main_pc = "ranged"
    /\ LET ms == CreatedManagers(districts, PyRange(edge_range[1], edge_range[2] + 1))
       IN  /\ edge_managers' = ms
           /\ pc' = [g \in SeqRange(ms) |-> "created"]
           /\ iteration' = [g \in SeqRange(ms) |-> 0]
           /\ payload' = [g \in SeqRange(ms) |-> NoPayload]
           /\ local_buffer' = [g \in SeqRange(ms) |-> <<>>]
           /\ messages_to_retry' = [g \in SeqRange(ms) |-> <<>>]
           /\ retry_idx' = [g \in SeqRange(ms) |-> 0]
           /\ published' = [g \in SeqRange(ms) |-> <<>>]
           /\ drain_start' = [g \in SeqRange(ms) |-> <<>>]
           /\ drain_attempts' = [g \in SeqRange(ms) |-> <<>>]
           /\ failed' = [g \in SeqRange(ms) |-> <<>>]
           /\ evicted' = [g \in SeqRange(ms) |-> {}]
           /\ faulted' = [g \in SeqRange(ms) |-> FALSE]
           /\ sampling_interval' \in [SeqRange(ms) -> SamplingIntervals]
    /\ main_pc' = "constructed"
    /\ UNCHANGED <<cfgvars, INSTANCE_ID, edge_range, edge_threads, stop_event, iteration_at_stop,
                   producer_closed, joined, ranges>>

\* CitySimulator.run up to the try block
BeginRun ==
    /\ main_pc = "constructed"
    /\ main_pc' = "starting"
    /\ UNCHANGED <<cfgvars, INSTANCE_ID, edge_range, edge_managers, edge_threads,
                   stop_event, iteration_at_stop, producer_closed, joined, gwvars, ranges>>

\* one turn of the loop of start_edges: thread.start() of the next manager
StartThread ==
    /\ main_pc = "starting"
    /\ Len(edge_threads) < Len(edge_managers)
    /\ LET g == edge_managers[Len(edge_threads) + 1]
       IN  /\ edge_threads' = Append(edge_threads, g)
           /\ pc' = [pc EXCEPT ![g] = "loop"]
    /\ UNCHANGED <<cfgvars, INSTANCE_ID, main_pc, edge_range, edge_managers,
                   stop_event, iteration_at_stop, producer_closed, joined, iteration, payload,
                   local_buffer, messages_to_retry, retry_idx,
                   published, drain_start, drain_attempts, failed, evicted, faulted,
                   sampling_interval, ranges>>

\* start_edges returns; the main thread enters its sleep loop
StartedAll ==
    /\ main_pc = "starting"
    /\ Len(edge_threads) = Len(edge_managers)
    /\ main_pc' = "running"
    /\ UNCHANGED <<cfgvars, INSTANCE_ID, edge_range, edge_managers, edge_threads,
                   stop_event, iteration_at_stop, producer_closed, joined, gwvars, ranges>>

\* the next instance of the fleet is launched with the same configuration
\* and another INSTANCE_ID
Relaunch ==
    /\ main_pc \in {"running", "fatal"}
    /\ \E k \in InstanceIds \ DOMAIN ranges :
          /\ k # INSTANCE_ID
          /\ INSTANCE_ID' = k
    /\ main_pc' = "init"
    /\ edge_range' = None
    /\ edge_managers' = <<>>
    /\ edge_threads' = <<>>
    /\ pc' = <<>>
    /\ iteration' = <<>>
    /\ payload' = <<>>
    /\ local_buffer' = <<>>
    /\ messages_to_retry' = <<>>
    /\ retry_idx' = <<>>
    /\ published' = <<>>
    /\ drain_start' = <<>>
    /\ drain_attempts' = <<>>
    /\ failed' = <<>>
    /\ evicted' = <<>>
    /\ faulted' = <<>>
    /\ sampling_interval' = <<>>
    /\ UNCHANGED <<cfgvars, stop_event, iteration_at_stop, producer_closed, joined, ranges>>

NextStartup ==
    \/ CalculateRange
    \/ InitializeEdges
    \/ BeginRun
    \/ StartThread
    \/ StartedAll
    \/ Relaunch

SpecStartup == InitStartup /\ [][NextStartup]_vars

(***************************************************************************)
(* EdgeManager: the gateway loop (edge_manager.py).                         *)
(***************************************************************************)
Gateways == DOMAIN pc

\* a mutant: a full buffer evicts the newest entry it holds
DequeAppend_EvictTail(buf, x) ==
    IF Len(buf) >= MaxLen
    THEN Append(SubSeq(buf, 1, Len(buf) - 1), x)
    ELSE Append(buf, x)

\* deque(maxlen=MaxLen).append(x): a full deque discards its head
DequeAppend(buf, x) ==
    IF Len(buf) >= MaxLen THEN Append(Tail(buf), x) ELSE Append(buf, x)

\* what producer.send(...) followed by future.get(timeout=10) can do: return,
\* run into the timeout, raise, or deliver a failed future.  A closed
\* producer accepts nothing.
SendOutcomes ==
    IF producer_closed
    THEN {"timeout", "exception", "failure"}
    ELSE {"ok", "timeout", "exception", "failure"}

\* a mutant: the payload is buffered after a successful publish too
BufferAfterSend_AlwaysBuffered(buf, data, outcome) == DequeAppend(buf, data)

\* a mutant: a timeout of future.get is not buffered
BufferAfterSend_TimeoutDropped(buf, data, outcome) ==
    IF outcome \in {"ok", "timeout"} THEN buf ELSE DequeAppend(buf, data)

\* the buffer after send_to_kafka(data): every failure takes the except branch
BufferAfterSend(buf, data, outcome) ==
    IF outcome = "ok" THEN buf ELSE DequeAppend(buf, data)

\* the return value of send_to_kafka
SendReturns(outcome) == outcome = "ok"

\* a mutant: the buffer is never drained
AfterPublish_NeverDrain(it) == "wait"

\* where run() goes after its publish step: "if iteration % 10 == 0"
AfterPublish(it) ==
    IF it % RetryEvery = 0 THEN "retry" ELSE "wait"

\* a mutant: the drain goes on after a failed replay
AfterReplay_NoBreak(sent, idx, n) ==
    IF idx < n THEN "retry_send" ELSE "wait"

\* the for loop of retry_buffered_messages after the replay of entry idx of n
AfterReplay(sent, idx, n) ==
    IF sent /\ idx < n THEN "retry_send" ELSE "wait"

\* messages_to_retry = list(self.local_buffer)
RetryBatch(buf) == buf

\* a mutant: the buffer is not cleared before the replay
BufferAfterBatch_Kept(buf) == buf

\* self.local_buffer.clear()
BufferAfterBatch(buf) == <<>>

\* a mutant: the loop, when it ends, publishes what the buffer holds
CheckLoop_FinalFlush(g) ==
    /\ pc[g] = "loop"
    /\ IF stop_event
       THEN /\ pc' = [pc EXCEPT ![g] = "stopped"]
            /\ published' = [published EXCEPT ![g] = @ \o local_buffer[g]]
            /\ local_buffer' = [local_buffer EXCEPT ![g] = <<>>]
       ELSE /\ iteration[g] < horizon
            /\ pc' = [pc EXCEPT ![g] = "generate"]
            /\ UNCHANGED <<published, local_buffer>>
    /\ UNCHANGED <<cfgvars, INSTANCE_ID, mainvars, iteration, payload,
                   messages_to_retry, retry_idx,
                   drain_start, drain_attempts, failed, evicted, faulted,
                   sampling_interval, ranges>>

\* a mutant: the loop ends at its first test, whatever the stop event
CheckLoop_Returns(g) ==
    /\ pc[g] = "loop"
    /\ pc' = [pc EXCEPT ![g] = "stopped"]
    /\ UNCHANGED <<cfgvars, INSTANCE_ID, mainvars, iteration, payload, local_buffer,
                   messages_to_retry, retry_idx, published,
                   drain_start, drain_attempts, failed, evicted, faulted,
                   sampling_interval, ranges>>

\* a mutant: the loop condition does not look at the stop event
CheckLoop_IgnoresStop(g) ==
    /\ pc[g] = "loop"
    /\ iteration[g] < horizon
    /\ pc' = [pc EXCEPT ![g] = "generate"]
    /\ UNCHANGED <<cfgvars, INSTANCE_ID, mainvars, iteration, payload, local_buffer,
                   messages_to_retry, retry_idx, published,
                   drain_start, drain_attempts, failed, evicted, faulted,
                   sampling_interval, ranges>>

\* "while not self.stop_event.is_set()"
CheckLoop(g) ==
    /\ pc[g] = "loop"
    /\ IF stop_event
       THEN pc' = [pc EXCEPT ![g] = "stopped"]
       ELSE /\ iteration[g] < horizon
            /\ pc' = [pc EXCEPT ![g] = "generate"]
    /\ UNCHANGED <<cfgvars, INSTANCE_ID, mainvars, iteration, payload, local_buffer,
                   messages_to_retry, retry_idx, published,
                   drain_start, drain_attempts, failed, evicted, faulted,
                   sampling_interval, ranges>>

\* what generate_gateway_payload collects from the sensor simulators: a
\* reading per configured sensor
Readings == IF sensors_per_gateway > 0 THEN "readings" ELSE "no_readings"

\* a mutant: a payload without readings is published too
AfterGenerate_AlwaysSend(gen, it) == "send"

\* "if payload.get('sensors')": a payload with readings is handed to
\* send_to_kafka, for one without the publish step is skipped
AfterGenerate(gen, it) ==
    IF gen = "readings" THEN "send" ELSE AfterPublish(it)

\* edge_manager.py:276-288 up to the call of send_to_kafka: the iteration is
\* counted and the payload generated; the sensor simulators may raise, which
\* takes the except branch of run()
Generate(g) ==
    /\ pc[g] = "generate"
    /\ iteration' = [iteration EXCEPT ![g] = @ + 1]
    /\ \E gen \in {Readings, "exception"} :
          /\ IF gen = "exception"
             THEN /\ pc' = [pc EXCEPT ![g] = "fault"]
                  /\ faulted' = [faulted EXCEPT ![g] = TRUE]
                  /\ UNCHANGED payload
             ELSE /\ payload' = [payload EXCEPT ![g] = iteration[g] + 1]
                  /\ UNCHANGED faulted
                  /\ pc' = [pc EXCEPT ![g] = AfterGenerate(gen, iteration[g] + 1)]
    /\ UNCHANGED <<cfgvars, INSTANCE_ID, mainvars, local_buffer, messages_to_retry,
                   retry_idx, sampling_interval, published, drain_start,
                   drain_attempts, failed, evicted, ranges>>

\* self.send_to_kafka(payload) of run()
Publish(g) ==
    /\ pc[g] = "send"
    /\ \E outcome \in SendOutcomes :
          /\ local_buffer' = [local_buffer EXCEPT ![g] =
                                 BufferAfterSend(@, payload[g], outcome)]
          /\ published' = [published EXCEPT ![g] =
                              IF outcome = "ok" THEN Append(@, payload[g]) ELSE @]
          /\ failed' = [failed EXCEPT ![g] =
                          IF outcome = "ok" THEN @ ELSE Append(@, payload[g])]
    /\ evicted' = [evicted EXCEPT ![g] =
                      @ \cup (SeqRange(local_buffer[g]) \ SeqRange(local_buffer'[g]))]
    /\ pc' = [pc EXCEPT ![g] = AfterPublish(iteration[g])]
    /\ UNCHANGED <<cfgvars, INSTANCE_ID, mainvars, iteration, payload,
                   messages_to_retry, retry_idx, sampling_interval, drain_start,
                   drain_attempts, faulted, ranges>>

\* retry_buffered_messages up to its for loop
BeginRetry(g) ==
    /\ pc[g] = "retry"
    /\ IF local_buffer[g] = <<>>
       THEN /\ pc' = [pc EXCEPT ![g] = "wait"]
            /\ UNCHANGED <<local_buffer, messages_to_retry, retry_idx,
                           drain_start, drain_attempts>>
       ELSE /\ messages_to_retry' = [messages_to_retry EXCEPT ![g] =
                                        RetryBatch(local_buffer[g])]
            /\ local_buffer' = [local_buffer EXCEPT ![g] = BufferAfterBatch(@)]
            /\ retry_idx' = [retry_idx EXCEPT ![g] = 1]
            /\ drain_start' = [drain_start EXCEPT ![g] = local_buffer[g]]
            /\ drain_attempts' = [drain_attempts EXCEPT ![g] = <<>>]
            /\ pc' = [pc EXCEPT ![g] = "retry_send"]
    /\ UNCHANGED <<cfgvars, INSTANCE_ID, mainvars, iteration, payload,
                   published, failed, evicted, faulted,
                   sampling_interval, ranges>>

\* one turn of the for loop of retry_buffered_messages
RetrySend(g) ==
    /\ pc[g] = "retry_send"
    /\ LET message == messages_to_retry[g][retry_idx[g]]
       IN  /\ \E outcome \in SendOutcomes :
                 /\ drain_attempts' = [drain_attempts EXCEPT ![g] =
                        Append(@, [message |-> message, sent |-> SendReturns(outcome)])]
                 /\ local_buffer' = [local_buffer EXCEPT ![g] =
                                        BufferAfterSend(@, message, outcome)]
                 /\ published' = [published EXCEPT ![g] =
                                     IF outcome = "ok" THEN Append(@, message) ELSE @]
                 /\ pc' = [pc EXCEPT ![g] =
                             AfterReplay(SendReturns(outcome), retry_idx[g],
                                         Len(messages_to_retry[g]))]
                 /\ retry_idx' = [retry_idx EXCEPT ![g] =
                                     IF SendReturns(outcome) THEN @ + 1 ELSE @]
    /\ evicted' = [evicted EXCEPT ![g] =
                      @ \cup (SeqRange(local_buffer[g]) \ SeqRange(local_buffer'[g]))]
    /\ UNCHANGED <<cfgvars, INSTANCE_ID, mainvars, iteration, payload,
                   messages_to_retry, sampling_interval, drain_start, failed,
                   faulted, ranges>>

\* a mutant: after the wait the next iteration begins without the test of
\* the stop event
Wait_SkipsCheck(g) ==
    /\ pc[g] = "wait"
    /\ iteration[g] < horizon
    /\ pc' = [pc EXCEPT ![g] = "generate"]
    /\ messages_to_retry' = [messages_to_retry EXCEPT ![g] = <<>>]
    /\ retry_idx' = [retry_idx EXCEPT ![g] = 0]
    /\ drain_start' = [drain_start EXCEPT ![g] = <<>>]
    /\ drain_attempts' = [drain_attempts EXCEPT ![g] = <<>>]
    /\ UNCHANGED <<cfgvars, INSTANCE_ID, mainvars, iteration, payload, local_buffer,
                   published, failed, evicted, faulted,
                   sampling_interval, ranges>>

\* self.stop_event.wait(timeout=self.sampling_interval) at the end of the try
\* block returns; the locals of retry_buffered_messages are gone
Wait(g) ==
    /\ pc[g] = "wait"
    /\ pc' = [pc EXCEPT ![g] = "loop"]
    /\ messages_to_retry' = [messages_to_retry EXCEPT ![g] = <<>>]
    /\ retry_idx' = [retry_idx EXCEPT ![g] = 0]
    /\ drain_start' = [drain_start EXCEPT ![g] = <<>>]
    /\ drain_attempts' = [drain_attempts EXCEPT ![g] = <<>>]
    /\ UNCHANGED <<cfgvars, INSTANCE_ID, mainvars, iteration, payload, local_buffer,
                   published, failed, evicted, faulted,
                   sampling_interval, ranges>>

\* a mutant: the except branch draws the interval again
FaultWait_RedrawsInterval(g) ==
    /\ pc[g] = "fault"
    /\ pc' = [pc EXCEPT ![g] = "loop"]
    /\ \E si \in SamplingIntervals \ {sampling_interval[g]} :
          sampling_interval' = [sampling_interval EXCEPT ![g] = si]
    /\ UNCHANGED <<cfgvars, INSTANCE_ID, mainvars, iteration, payload, local_buffer,
                   messages_to_retry, retry_idx, published,
                   drain_start, drain_attempts, failed, evicted, faulted, ranges>>

\* a mutant: the exception ends run()
FaultWait_Terminates(g) ==
    /\ pc[g] = "fault"
    /\ pc' = [pc EXCEPT ![g] = "stopped"]
    /\ UNCHANGED <<cfgvars, INSTANCE_ID, mainvars, iteration, payload, local_buffer,
                   messages_to_retry, retry_idx, published,
                   drain_start, drain_attempts, failed, evicted, faulted,
                   sampling_interval, ranges>>

\* the except branch of run(): the error is logged and the same wait is made
FaultWait(g) ==
    /\ pc[g] = "fault"
    /\ pc' = [pc EXCEPT ![g] = "loop"]
    /\ UNCHANGED <<cfgvars, INSTANCE_ID, mainvars, iteration, payload, local_buffer,
                   messages_to_retry, retry_idx, published,
                   drain_start, drain_attempts, failed, evicted, faulted,
                   sampling_interval, ranges>>

(***************************************************************************)
(* CitySimulator.run and stop (city_simulator.py).                          *)
(***************************************************************************)
\* KeyboardInterrupt in the try block of run(): finally calls stop(), which
\* sets the stop event
Shutdown ==
    /\ main_pc \in {"starting", "running"}
    /\ stop_event' = TRUE
    /\ iteration_at_stop' = iteration
    /\ joined' = 0
    /\ main_pc' = "joining"
    /\ UNCHANGED <<cfgvars, INSTANCE_ID, edge_range, edge_managers, edge_threads,
                   producer_closed, gwvars, ranges>>

\* thread.join(timeout=5) of the next thread returns: the thread has ended
\* or the five seconds have passed
JoinThread ==
    /\ main_pc = "joining"
    /\ joined < Len(edge_threads)
    /\ joined' = joined + 1
    /\ UNCHANGED <<cfgvars, INSTANCE_ID, main_pc, edge_range, edge_managers,
                   edge_threads, stop_event, iteration_at_stop, producer_closed, gwvars, ranges>>

\* a mutant: the producer is closed without waiting for the joins
CloseProducer_BeforeJoins ==
    /\ main_pc = "joining"
    /\ producer_closed' = TRUE
    /\ main_pc' = "stopped"
    /\ UNCHANGED <<cfgvars, INSTANCE_ID, edge_range, edge_managers, edge_threads,
                   stop_event, iteration_at_stop, joined, gwvars, ranges>>

\* self.kafka_producer.close()
CloseProducer ==
    /\ main_pc = "joining"
    /\ joined = Len(edge_threads)
    /\ producer_closed' = TRUE
    /\ main_pc' = "stopped"
    /\ UNCHANGED <<cfgvars, INSTANCE_ID, edge_range, edge_managers, edge_threads,
                   stop_event, iteration_at_stop, joined, gwvars, ranges>>

\* the state after CitySimulator() with the given configuration
Constructed(te, id, n, ds) ==
    /\ total_edges = te
    /\ INSTANCE_ID = id
    /\ TOTAL_INSTANCES = n
    /\ districts = ds
    /\ main_pc = "constructed"
    /\ edge_range = calculate_instance_edge_range(te, id, n)
    /\ ranges = (id :> calculate_instance_edge_range(te, id, n))
    /\ edge_managers = CreatedManagers(ds, PyRange(edge_range[1], edge_range[2] + 1))
    /\ edge_threads = <<>>
    /\ stop_event = FALSE
    /\ iteration_at_stop = <<>>
    /\ producer_closed = FALSE
    /\ joined = 0
    /\ NewGateways(edge_managers)

OneDistrict == <<[district_id |-> "D1", start |-> 0, end |-> 1]>>

\* one instance that holds the only edge, its gateway drew the shortest
\* interval and is followed for MaxIter iterations
InitGateway ==
    /\ Constructed(1, 0, 1, OneDistrict)
    /\ sensors_per_gateway = 1
    /\ sampling_interval = [g \in Gateways |-> 25]
    /\ horizon = MaxIter

\* one instance that holds both edges of the district, each gateway followed
\* for MaxIterShared iterations
InitCity ==
    /\ Constructed(2, 0, 1, OneDistrict)
    /\ sensors_per_gateway \in {0, 1}
    /\ horizon = MaxIterShared

Next ==
    \/ BeginRun
    \/ StartThread
    \/ StartedAll
    \/ Shutdown
    \/ JoinThread
    \/ CloseProducer
    \/ \E g \in Gateways : CheckLoop(g)
    \/ \E g \in Gateways : Generate(g)
    \/ \E g \in Gateways : Publish(g)
    \/ \E g \in Gateways : BeginRetry(g)
    \/ \E g \in Gateways : RetrySend(g)
    \/ \E g \in Gateways : Wait(g)
    \/ \E g \in Gateways : FaultWait(g)

\* the gateway loop alone: no shutdown is requested
NextGateway ==
    \/ BeginRun
    \/ StartThread
    \/ StartedAll
    \/ \E g \in Gateways : CheckLoop(g)
    \/ \E g \in Gateways : Generate(g)
    \/ \E g \in Gateways : Publish(g)
    \/ \E g \in Gateways : BeginRetry(g)
    \/ \E g \in Gateways : RetrySend(g)
    \/ \E g \in Gateways : Wait(g)
    \/ \E g \in Gateways : FaultWait(g)

\* one gateway, followed in depth
SpecGateway == InitGateway /\ [][NextGateway]_vars

\* the city simulator with two gateways
Spec == InitCity /\ [][Next]_vars

\* a step of the thread of gateway g: EdgeManager.run
WorkerStep(g) ==
    \/ CheckLoop(g)
    \/ Generate(g)
    \/ Publish(g)
    \/ BeginRetry(g)
    \/ RetrySend(g)
    \/ Wait(g)
    \/ FaultWait(g)

\* the same city, its two gateways with sensors and the shortest interval
InitShutdown ==
    /\ Constructed(2, 0, 1, OneDistrict)
    /\ sensors_per_gateway = 1
    /\ sampling_interval = [g \in Gateways |-> 25]
    /\ horizon = MaxIterShared

\* the thread of each of the two gateways, once started, is scheduled again
\* and again; a publish call returns (future.get has a timeout), so no step
\* of a thread blocks
SpecFair ==
    /\ InitShutdown
    /\ [][Next]_vars
    /\ \A g \in 0..1 : WF_vars(g \in Gateways /\ WorkerStep(g))

\* the main thread is scheduled again and again, whatever the gateway
\* threads do: thread.join(timeout=5) and kafka_producer.close() return
SpecStop ==
    /\ InitShutdown
    /\ [][Next]_vars
    /\ WF_vars(JoinThread)
    /\ WF_vars(CloseProducer)

(***************************************************************************)
(* Properties of the partition calculation and of start-up (SpecStartup).  *)
(***************************************************************************)
ValidIds == 0..(TOTAL_INSTANCES - 1)

RangeSet(r) == r[1]..r[2]

RangeSize(r) == r[2] - r[1] + 1

\* the ranges computed by the instances whose id lies in [0, TOTAL_INSTANCES)
Computed == DOMAIN ranges \cap ValidIds

\* the number of items the specification assigns to instance k
Share(k) ==
    IF k < total_edges % TOTAL_INSTANCES
    THEN (total_edges \div TOTAL_INSTANCES) + 1
    ELSE total_edges \div TOTAL_INSTANCES

RECURSIVE SharesBelow(_)
SharesBelow(k) == IF k <= 0 THEN 0 ELSE Share(k - 1) + SharesBelow(k - 1)

RECURSIVE SizesBelow(_)
SizesBelow(k) == IF k <= 0 THEN 0 ELSE RangeSize(ranges[k - 1]) + SizesBelow(k - 1)

\* C1: for total_edges >= 0 and TOTAL_INSTANCES >= 1 the ranges computed for
\* the instance ids 0..TOTAL_INSTANCES-1 are pairwise disjoint, any two sizes
\* differ by at most 1, and once every instance has computed its range their
\* union is exactly the index set 0..total_edges-1.
C1_PartitionExact ==
    TOTAL_INSTANCES >= 1 =>
        /\ \A i, j \in Computed :
              /\ i # j => RangeSet(ranges[i]) \cap RangeSet(ranges[j]) = {}
              /\ RangeSize(ranges[i]) - RangeSize(ranges[j]) <= 1
        /\ Computed = ValidIds =>
              UNION {RangeSet(ranges[i]) : i \in ValidIds} = 0..(total_edges - 1)

\* every instance of a fleet of three has its range, five items to share
C1_Witness ==
    /\ TOTAL_INSTANCES = 3
    /\ total_edges = 5
    /\ Computed = ValidIds

\* C2: for a valid instance id k the size of the range is base+1 if
\* k < remainder else base, its start is the sum of the sizes assigned to
\* the instances 0..k-1 (instance 0 starts at 0, instance k+1 starts at
\* end(k)+1), and the sizes of all instances sum to total_edges.
C2_SizesAndStarts ==
    TOTAL_INSTANCES >= 1 =>
        /\ \A k \in Computed :
              /\ RangeSize(ranges[k]) = Share(k)
              /\ ranges[k][1] = SharesBelow(k)
              /\ k = 0 => ranges[k][1] = 0
              /\ (k + 1) \in Computed => ranges[k + 1][1] = ranges[k][2] + 1
        /\ Computed = ValidIds =>
              /\ SizesBelow(TOTAL_INSTANCES) = total_edges
              /\ \A k \in ValidIds : ranges[k][1] = SizesBelow(k)

\* every instance of a fleet of three has its range, four items to share:
\* one instance holds two items, the others one
C2_Witness ==
    /\ TOTAL_INSTANCES = 3
    /\ total_edges = 4
    /\ Computed = ValidIds
    /\ RangeSize(ranges[0]) = 2
    /\ RangeSize(ranges[2]) = 1

\* C3: with TOTAL_INSTANCES <= 0 the partition calculation fails, start-up
\* is fatal, no range is produced and no gateway is created or started.
C3_NonPositiveInstancesFatal ==
    TOTAL_INSTANCES <= 0 =>
        /\ main_pc \in {"init", "fatal"}
        /\ ranges = <<>>
        /\ edge_managers = <<>>
        /\ edge_threads = <<>>

\* C4: with INSTANCE_ID outside [0, TOTAL_INSTANCES) the partition
\* calculation fails and returns no range.
C4_InvalidInstanceIdFails ==
    (TOTAL_INSTANCES >= 1 /\ INSTANCE_ID \notin ValidIds) =>
        /\ main_pc \in {"init", "fatal"}
        /\ INSTANCE_ID \notin DOMAIN ranges

\* C5: when total_edges < TOTAL_INSTANCES, start-up of a valid instance does
\* not fail; an instance with INSTANCE_ID >= total_edges receives the empty
\* range end = start - 1, creates no gateway and starts no thread; an
\* instance with INSTANCE_ID < total_edges receives exactly one index.
C5_DegenerateRanges ==
    (/\ TOTAL_INSTANCES >= 1
     /\ total_edges < TOTAL_INSTANCES
     /\ INSTANCE_ID \in ValidIds
     /\ main_pc # "init") =>
        /\ main_pc # "fatal"
        /\ IF INSTANCE_ID >= total_edges
           THEN /\ edge_range[2] = edge_range[1] - 1
                /\ edge_managers = <<>>
                /\ edge_threads = <<>>
                /\ DOMAIN pc = {}
           ELSE /\ edge_range[2] = edge_range[1]
                /\ edge_range[1] \in 0..(total_edges - 1)

\* instance 2 of 3 with two items and districts configured has gone through
\* start_edges and runs without a single gateway
C5_Witness ==
    /\ TOTAL_INSTANCES = 3
    /\ total_edges = 2
    /\ INSTANCE_ID = 2
    /\ districts # <<>>
    /\ main_pc = "running"
    /\ edge_managers = <<>>

(***************************************************************************)
(* Properties of the publish / buffer / retry protocol (SpecGateway).      *)
(***************************************************************************)
Last(q) == q[Len(q)]

Min(a, b) == IF a <= b THEN a ELSE b

LastN(q, n) == SubSeq(q, Len(q) - n + 1, Len(q))

\* gateway g makes a call of send_to_kafka in this step
SendStep(g) ==
    \/ pc[g] = "send" /\ pc'[g] # "send"
    \/ pc[g] = "retry_send" /\ drain_attempts'[g] # drain_attempts[g]

\* the payload that call is handed
Handed(g) ==
    IF pc[g] = "send" THEN payload[g] ELSE messages_to_retry[g][retry_idx[g]]

\* the call of this step succeeded: the bus has taken the payload
SendSucceeds(g) == published'[g] # published[g]

\* C6: a gateway's buffer never holds more than MaxLen entries, and a failed
\* payload appended to a buffer that holds MaxLen entries removes exactly
\* the oldest one: the others keep their order and the new payload is last.
C6_BufferBounded ==
    /\ [](\A g \in Gateways : Len(local_buffer[g]) <= MaxLen)
    /\ [][\A g \in Gateways :
            (SendStep(g) /\ ~SendSucceeds(g) /\ Len(local_buffer[g]) = MaxLen) =>
                /\ Len(local_buffer'[g]) = MaxLen
                /\ \A i \in 1..(MaxLen - 1) :
                      local_buffer'[g][i] = local_buffer[g][i + 1]
                /\ local_buffer'[g][MaxLen] = Handed(g)]_vars

\* a full buffer whose tail is the payload that has just failed, an older
\* payload having been discarded for it
C6_Witness ==
    \E g \in Gateways :
        /\ Len(local_buffer[g]) = MaxLen
        /\ evicted[g] # {}
        /\ pc[g] = "wait"
        /\ Last(local_buffer[g]) = payload[g]
        /\ \A e \in evicted[g] : e < local_buffer[g][1]

\* C7: a call of send_to_kafka that succeeds leaves the buffer unchanged; one
\* that fails (timeout, exception, failed future) appends the payload at the
\* tail of the buffer; either way the gateway goes on with the same
\* iteration: it neither enters the except branch of run() nor stops.
C7_PublishFailureBuffered ==
    [][\A g \in Gateways :
          SendStep(g) =>
              /\ iteration'[g] = iteration[g]
              /\ pc'[g] \in {"retry", "retry_send", "wait"}
              /\ IF SendSucceeds(g)
                 THEN /\ local_buffer'[g] = local_buffer[g]
                      /\ published'[g] = Append(published[g], Handed(g))
                 ELSE LET old == local_buffer[g]
                          new == local_buffer'[g]
                          kept == Min(Len(old), MaxLen - 1)
                      IN  /\ Len(new) = kept + 1
                          /\ new[Len(new)] = Handed(g)
                          /\ SubSeq(new, 1, kept) = LastN(old, kept)]_vars

\* the publish of the iteration has failed on a buffer that held entries; the
\* payload is the last entry and the gateway is about to drain
C7_Witness ==
    \E g \in Gateways :
        /\ pc[g] = "retry"
        /\ failed[g] # <<>>
        /\ Last(failed[g]) = payload[g]
        /\ iteration[g] = payload[g]
        /\ Len(local_buffer[g]) >= 2
        /\ Last(local_buffer[g]) = payload[g]

\* C8: a gateway that started with an empty buffer and whose every publish
\* attempt has failed holds, between iterations, the newest min(N, MaxLen) of
\* the N payloads it tried to publish.
C8_FailureStreakKeepsNewest ==
    \A g \in Gateways :
        (published[g] = <<>> /\ pc[g] = "loop") =>
            local_buffer[g] = LastN(failed[g], Min(Len(failed[g]), MaxLen))

\* a drain is under way, or is over and the gateway has not yet left the
\* iteration
DrainOver(g) == pc[g] = "wait" /\ drain_start[g] # <<>>

InDrain(g) == pc[g] = "retry_send" \/ DrainOver(g)

AllSent(a) == \A i \in 1..Len(a) : a[i].sent

\* C9: the publish attempts of one drain are a prefix, in order, of the
\* buffer as it was when the drain began; no attempt follows a failed one;
\* a drain without a failed attempt has attempted every message once and
\* leaves the buffer empty.
C9_DrainIsFifoPrefix ==
    \A g \in Gateways :
        InDrain(g) =>
            LET a == drain_attempts[g]
                b == drain_start[g]
            IN  /\ Len(a) <= Len(b)
                /\ \A i \in 1..Len(a) : a[i].message = b[i]
                /\ \A i \in 1..(Len(a) - 1) : a[i].sent
                /\ pc[g] = "retry_send" => AllSent(a) /\ Len(a) < Len(b)
                /\ (DrainOver(g) /\ AllSent(a)) =>
                      /\ Len(a) = Len(b)
                      /\ local_buffer[g] = <<>>

\* a drain of at least two messages is over and none of its attempts failed
C9_Witness ==
    \E g \in Gateways :
        /\ DrainOver(g)
        /\ Len(drain_start[g]) >= 2
        /\ AllSent(drain_attempts[g])
        /\ local_buffer[g] = <<>>

InSeq(x, q) == \E i \in 1..Len(q) : q[i] = x

\* C10: when the k-th replay of a drain of n messages is the first to fail,
\* the messages before it have been published, the buffer holds exactly the
\* k-th message, and the n - k messages after it are neither in the buffer
\* nor published.
C10_DrainLosesTheRest ==
    \A g \in Gateways :
        (DrainOver(g) /\ ~AllSent(drain_attempts[g])) =>
            LET b == drain_start[g]
                n == Len(b)
                k == Len(drain_attempts[g])
                gone == {j \in 1..n : /\ ~InSeq(b[j], local_buffer[g])
                                      /\ ~InSeq(b[j], published[g])}
            IN  /\ 1 <= k /\ k <= n
                /\ \A j \in 1..(k - 1) : InSeq(b[j], published[g])
                /\ local_buffer[g] = <<b[k]>>
                /\ gone = (k + 1)..n
                /\ Cardinality(gone) = n - k

\* a drain of three or more messages whose second replay failed: one message
\* published, one back in the buffer, the others gone
C10_Witness ==
    \E g \in Gateways :
        /\ DrainOver(g)
        /\ Len(drain_start[g]) >= 3
        /\ Len(drain_attempts[g]) = 2
        /\ ~drain_attempts[g][2].sent


(***************************************************************************)
(* Properties of the gateway loop among other gateways and of shutdown     *)
(* (Spec).                                                                 *)
(***************************************************************************)
\* gateway g takes the except branch of run()
Faults(g) == pc[g] = "generate" /\ pc'[g] = "fault"

\* the step leaves buffer, iteration and position of every gateway but g alone
OthersUntouched(g) ==
    \A h \in Gateways \ {g} :
        /\ local_buffer'[h] = local_buffer[h]
        /\ iteration'[h] = iteration[h]
        /\ pc'[h] = pc[h]

\* C11: an exception in an iteration is caught inside the loop: the worker
\* does not terminate but makes the wait of the except branch, after which it
\* tests the stop event and, if that is not set, begins the next iteration;
\* neither the exception nor the wait changes the buffer, the iteration
\* counter or the position of any other worker.
C11_FaultIsCaught ==
    [][\A g \in Gateways :
          /\ Faults(g) => OthersUntouched(g)
          /\ pc[g] = "fault" => pc'[g] \in {"fault", "loop"}
          /\ (pc[g] = "fault" /\ pc'[g] = "loop") =>
                /\ OthersUntouched(g)
                /\ local_buffer'[g] = local_buffer[g]
                /\ iteration'[g] = iteration[g]
          /\ (pc[g] = "loop" /\ pc'[g] # "loop" /\ ~stop_event) =>
                pc'[g] = "generate"]_vars

\* a worker whose first iteration raised publishes in its second, next to
\* another worker that has run
C11_Witness ==
    \E g \in Gateways : \E h \in Gateways \ {g} :
        /\ faulted[g]
        /\ iteration[g] = 2
        /\ pc[g] = "send"
        /\ iteration[h] >= 1

\* C12: after stop() has set the event a worker begins at most one more
\* iteration, and its run() ends by the loop condition only: from the test
\* of the event, with the event set.
C12_AtMostOneMoreIteration ==
    /\ [](stop_event =>
            \A g \in Gateways : iteration[g] <= iteration_at_stop[g] + 1)
    /\ [][\A g \in Gateways :
             /\ (pc'[g] = "stopped" /\ pc[g] # "stopped") =>
                   (pc[g] = "loop" /\ stop_event)
             /\ (stop_event /\ pc[g] = "loop" /\ pc'[g] # "loop") =>
                   pc'[g] = "stopped"]_vars

\* a worker that had passed the test of the event when it was set: it has
\* made that iteration and stopped
C12_Witness ==
    \E g \in Gateways :
        /\ stop_event
        /\ iteration[g] = iteration_at_stop[g] + 1
        /\ pc[g] = "stopped"

\* the threads start_edges has started
Workers == SeqRange(edge_threads)

\* C13: once the stop event is set, every started worker eventually leaves
\* its loop, whatever it was doing when the event was set, provided its
\* thread keeps being scheduled and every publish call returns.
C13_WorkersEventuallyStop ==
    stop_event ~> (\A g \in Workers : pc[g] = "stopped")

\* both workers have stopped; one of them was in its drain iteration or in
\* the wait after it when the event was set, and that drain replayed a payload
C13_Witness ==
    /\ stop_event
    /\ Len(edge_threads) = 2
    /\ \A g \in Workers : pc[g] = "stopped"
    /\ \E g \in Workers :
          /\ iteration_at_stop[g] = iteration[g]
          /\ iteration[g] % RetryEvery = 0
          /\ Len(published[g]) = 2
          /\ published[g][1] > published[g][2]

\* C14: stop() sets the stop event, then joins the started threads one after
\* the other, then closes the producer, once: the producer is closed only
\* when the event is set and every join has returned (the thread has ended
\* or the timeout has passed), nothing of stop() happens after the close,
\* and stop() reaches the close even if a gateway thread never takes
\* another step.
C14_StopOrder ==
    /\ [](main_pc = "joining" => stop_event)
    /\ [](producer_closed => (stop_event /\ joined = Len(edge_threads)))
    /\ [][joined' # joined =>
             /\ stop_event'
             /\ ~producer_closed'
             /\ joined' = (IF stop_event THEN joined + 1 ELSE 0)]_vars
    /\ [][producer_closed =>
             UNCHANGED <<main_pc, stop_event, joined, producer_closed>>]_vars
    /\ (stop_event ~> producer_closed)

\* the producer is closed after both joins although a worker has not stopped
C14_Witness ==
    /\ producer_closed
    /\ joined = 2
    /\ \E g \in Workers : pc[g] # "stopped"

\* gateway g generates a payload without readings
NoReadings(g) ==
    /\ pc[g] = "generate"
    /\ pc'[g] \notin {"generate", "fault"}
    /\ Readings = "no_readings"

\* C15: an iteration whose payload has no readings makes no publish call and
\* takes no except branch: it goes on to the drain test; a gateway without
\* configured sensors never publishes, its buffer stays empty and its drains
\* replay nothing.
C15_NoReadingsNoPublish ==
    /\ [][\A g \in Gateways :
             NoReadings(g) =>
                /\ pc'[g] = AfterPublish(iteration'[g])
                /\ UNCHANGED <<local_buffer, published, failed, faulted>>]_vars
    /\ [](sensors_per_gateway = 0 =>
            \A g \in Gateways :
                /\ pc[g] \notin {"send", "retry_send"}
                /\ local_buffer[g] = <<>>
                /\ published[g] = <<>>
                /\ failed[g] = <<>>)

\* a gateway without sensors has gone through a drain iteration
C15_Witness ==
    \E g \in Gateways :
        /\ sensors_per_gateway = 0
        /\ iteration[g] = RetryEvery
        /\ ~faulted[g]
        /\ pc[g] = "wait"

\* the publish step of an iteration of gateway g is over: the publish has
\* returned, was skipped, or the iteration took the except branch
PublishStepOver(g) ==
    /\ pc[g] \in {"generate", "send"}
    /\ pc'[g] \notin {"generate", "send"}

\* C16: retry_buffered_messages is called in every iteration whose number is
\* a multiple of RetryEvery, after the publish step of that iteration, and in
\* no other iteration, whether the publish succeeded, failed, was skipped or
\* the iteration raised an exception before the drain.
C16_DrainEveryRth ==
    [][\A g \in Gateways :
          /\ PublishStepOver(g) =>
                (pc'[g] = "retry" <=> iteration'[g] % RetryEvery = 0)
          /\ (pc'[g] = "retry" /\ pc[g] # "retry") => PublishStepOver(g)]_vars

\* the lifecycle state of a worker at position p when the stop event is
\* stop: 0 Created (thread not started), 1 Running, 2 Stopping (the event
\* is set, run() has not returned), 3 Stopped (run() has returned)
LifecycleRank(p, stop) ==
    IF p = "created" THEN 0
    ELSE IF p = "stopped" THEN 3
    ELSE IF stop THEN 2 ELSE 1

\* C17: a worker moves along Created, Running, Stopping, Stopped one state at
\* a time and never back; it becomes Stopping by the setting of the stop
\* event, it becomes Stopped only from the test of the loop condition, that
\* is between two iterations, and no worker is Stopped while the event is
\* unset.
C17_LifecycleForward ==
    /\ [][\A g \in Gateways :
             LET before == LifecycleRank(pc[g], stop_event)
                 after == LifecycleRank(pc'[g], stop_event')
             IN  /\ after \in {before, before + 1}
                 /\ (before = 1 /\ after = 2) =>
                       (~stop_event /\ stop_event' /\ pc'[g] = pc[g])
                 /\ (before # 3 /\ after = 3) => pc[g] = "loop"]_vars
    /\ [](\A g \in Gateways : pc[g] = "stopped" => stop_event)

\* one worker has stopped after an iteration, the other is still in the
\* iteration that was under way when the event was set
C17_Witness ==
    \E g \in Gateways : \E h \in Gateways \ {g} :
        /\ pc[g] = "stopped"
        /\ iteration[g] >= 1
        /\ pc[h] \in {"send", "retry_send"}
        /\ iteration_at_stop[h] = iteration[h]

\* C18: a step of a worker changes neither the buffer, the iteration counter
\* or the sampling interval of another worker, nor its own sampling interval,
\* nor the stop event; the stop event is set by stop() of the main thread
\* only and is never cleared.
C18_WorkerFrame ==
    /\ [][\A g \in Gateways :
             WorkerStep(g) =>
                /\ \A h \in Gateways \ {g} :
                      /\ local_buffer'[h] = local_buffer[h]
                      /\ iteration'[h] = iteration[h]
                      /\ sampling_interval'[h] = sampling_interval[h]
                /\ sampling_interval'[g] = sampling_interval[g]
                /\ stop_event' = stop_event]_vars
    /\ [][stop_event' # stop_event =>
             (stop_event' /\ main_pc \in {"starting", "running"}
                         /\ main_pc' = "joining")]_vars

\* two workers with different intervals: one has gone through an exception
\* and a drain iteration, the other holds a buffered payload
C18_Witness ==
    \E g \in Gateways : \E h \in Gateways \ {g} :
        /\ sampling_interval[g] # sampling_interval[h]
        /\ faulted[g]
        /\ iteration[g] = RetryEvery
        /\ pc[g] = "wait"
        /\ local_buffer[h] # <<>>
        /\ stop_event

(***************************************************************************)
(* Properties of the gateway registry (SpecStartup).                       *)
(***************************************************************************)
\* the indices of the instance's range, in order
RangeIndices == PyRange(edge_range[1], edge_range[2] + 1)

\* the gateway ids of the managers created
GatewayIds ==
    {generate_gateway_id(generate_edge_id(edge_managers[i])) :
        i \in 1..Len(edge_managers)}

\* the index lies in the range of some district
InSomeDistrict(edge_index) ==
    \E i \in 1..Len(districts) :
        districts[i].start <= edge_index /\ edge_index <= districts[i].end

\* C19: for every district list, the empty one included, one gateway is
\* created per index of the instance's range, end - start + 1 of them for a
\* range with start <= end, with pairwise distinct gateway ids; an index in
\* no district's range gets the first configured district; and start_edges
\* starts one thread per gateway.
C19_OneGatewayPerIndex ==
    main_pc \in {"constructed", "starting", "running"} =>
        /\ edge_managers = RangeIndices
        /\ edge_range[1] <= edge_range[2] =>
              Len(edge_managers) = edge_range[2] - edge_range[1] + 1
        /\ Cardinality(GatewayIds) = Len(edge_managers)
        /\ \A i \in 1..Len(RangeIndices) :
              ~InSomeDistrict(RangeIndices[i]) =>
                 /\ districts # <<>>
                 /\ find_district_for_edge(districts, RangeIndices[i]) = districts[1]
        /\ main_pc = "running" => edge_threads = edge_managers

(***************************************************************************)
(* The size of the buffer of a gateway without exceptions (SpecGateway).   *)
(***************************************************************************)
\* C20: while no iteration of a worker has taken the except branch, its
\* buffer holds at most RetryEvery + 1 entries, whatever publishes fail: a
\* step adds at most one entry, a drain leaves at most one, and the deque
\* has discarded nothing.
C20_BufferSmallWithoutFaults ==
    /\ [](\A g \in Gateways :
            ~faulted[g] =>
               /\ Len(local_buffer[g]) <= RetryEvery + 1
               /\ Len(local_buffer[g]) < MaxLen
               /\ evicted[g] = {})
    /\ [](\A g \in Gateways : DrainOver(g) => Len(local_buffer[g]) <= 1)
    /\ [][\A g \in Gateways :
             Len(local_buffer'[g]) <= Len(local_buffer[g]) + 1]_vars

\* a worker without exceptions whose buffer holds RetryEvery + 1 entries:
\* the one the last drain left and one per iteration since
C20_Witness ==
    \E g \in Gateways :
        /\ ~faulted[g]
        /\ Len(local_buffer[g]) = RetryEvery + 1
        /\ iteration[g] = 2 * RetryEvery
        /\ pc[g] = "retry"

(***************************************************************************)
(* The producer after close() and the order on the bus.                    *)
(***************************************************************************)
\* C21: no gateway thread makes a call of send_to_kafka, from run() or from
\* a drain, once stop() has closed the producer, however the joins of stop()
\* and the iterations interleave.
C21_NoPublishAfterClose ==
    [][\A g \in Gateways : SendStep(g) => ~producer_closed]_vars

\* C22: the payloads of one gateway whose publish returned success were
\* published in the order of their generation, direct publishes and replays
\* of a drain taken together.
C22_PublishedInGenerationOrder ==
    \A g \in Gateways :
        \A i \in 1..Len(published[g]) : \A j \in 1..Len(published[g]) :
            i < j => published[g][i] < published[g][j]

(***************************************************************************)
(* Where a payload is (SpecGateway).                                       *)
(***************************************************************************)
NoRepeats(q) == \A i \in 1..Len(q) : \A j \in 1..Len(q) : i # j => q[i] # q[j]

\* the payloads run() has handed to send_to_kafka so far
Sent(g) == SeqRange(published[g]) \cup SeqRange(failed[g])

\* the payloads a drain under way has taken out of the buffer and not yet
\* replayed
Pending(g) ==
    IF pc[g] = "retry_send"
    THEN {messages_to_retry[g][i] : i \in retry_idx[g]..Len(messages_to_retry[g])}
    ELSE {}

\* the payloads that are gone: handed to send_to_kafka, not published, not
\* in the buffer and not waiting for their replay
Lost(g) ==
    Sent(g) \ (SeqRange(published[g]) \cup SeqRange(local_buffer[g]) \cup Pending(g))

\* C23: no payload is twice in a buffer, none is published twice, none is
\* both published and in the buffer (or waiting for its replay), a payload
\* the deque discarded is in neither place, and a payload that is gone
\* does not come back.
C23_OnePlacePerPayload ==
    /\ [](\A g \in Gateways :
            /\ NoRepeats(local_buffer[g])
            /\ NoRepeats(published[g])
            /\ SeqRange(local_buffer[g]) \cap SeqRange(published[g]) = {}
            /\ Pending(g) \cap (SeqRange(local_buffer[g]) \cup SeqRange(published[g])) = {}
            /\ evicted[g] \subseteq Lost(g))
    /\ [][\A g \in Gateways : Lost(g) \subseteq Lost(g)']_vars

\* a gateway between two iterations with a payload in each place
C23_Witness ==
    \E g \in Gateways :
        /\ pc[g] = "loop"
        /\ local_buffer[g] # <<>>
        /\ published[g] # <<>>
        /\ Lost(g) # {}

(***************************************************************************)
(* The buffer of a stopped worker (Spec).                                  *)
(***************************************************************************)
\* a step of stop() of the main thread
StopStep == main_pc' # main_pc \/ joined' # joined

\* C24: there is no final flush: the step by which run() returns and every
\* step after it leave the buffer of that gateway and what it has published
\* as they are and make no call of send_to_kafka for it, the worker stays
\* stopped, and stop() touches no buffer; so what the buffer holds when the
\* worker stops is never published.
C24_NoFinalFlush ==
    /\ [][\A g \in Gateways :
             /\ pc'[g] = "stopped" =>
                   /\ local_buffer'[g] = local_buffer[g]
                   /\ published'[g] = published[g]
                   /\ ~SendStep(g)
             /\ pc[g] = "stopped" => pc'[g] = "stopped"]_vars
    /\ [][StopStep => UNCHANGED <<local_buffer, published>>]_vars

\* a worker has stopped with a payload in its buffer and the producer has
\* been closed
C24_Witness ==
    \E g \in Gateways :
        /\ pc[g] = "stopped"
        /\ local_buffer[g] # <<>>
        /\ producer_closed

=============================================================================
